---------------------------- MODULE Spec2Model ----------------------------
(***************************************************************************)
(* Trigger detection and context normalisation of claude-code-action.      *)
(*                                                                         *)
(* parseGitHubContext (src/src/github/context.ts) turns the platform event *)
(* and the process environment into a ParsedGitHubContext;                 *)
(* checkTriggerAction / checkContainsTrigger (src/unnamed/part_000) decide *)
(* from that context whether the action activates.                         *)
(*                                                                         *)
(* Strings are sequences of one-character strings, so that trimming,       *)
(* splitting, regular-expression matching and parseInt are computed, not   *)
(* assumed.  JavaScript values are tagged records.                         *)
(***************************************************************************)
EXTENDS Integers, Sequences, FiniteSets, TLC

VARIABLES pc, event, env, context, outcome, output, log

vars == <<pc, event, env, context, outcome, output, log>>

(***************************************************************************)
(* Bounds of the model.                                                    *)
(***************************************************************************)
MaxTextLen == 4
MaxPhraseLen == 2
MaxListLen == 4

(***************************************************************************)
(* JavaScript values.                                                      *)
(***************************************************************************)
Undef == [t |-> "undefined"]
Null == [t |-> "null"]
NaN == [t |-> "NaN"]
Str(s) == [t |-> "string", v |-> s]
Num(n) == [t |-> "number", v |-> n]
Bool(b) == [t |-> "boolean", v |-> b]

\* ToBoolean: undefined, null, NaN, 0, "" and false are falsy.
Truthy(x) ==
  CASE x.t = "undefined" -> FALSE
    [] x.t = "null" -> FALSE
    [] x.t = "NaN" -> FALSE
    [] x.t = "string" -> Len(x.v) > 0
    [] x.t = "number" -> x.v # 0
    [] x.t = "boolean" -> x.v
    [] x.t = "object" -> TRUE

\* a || b
Or(a, b) == IF Truthy(a) THEN a ELSE b

\* a ?? b
Coalesce(a, b) == IF a.t \in {"undefined", "null"} THEN b ELSE a

\* a === b on the values of the model
StrictEq(a, b) ==
  /\ a.t = b.t
  /\ a.t # "NaN"
  /\ (a.t \in {"string", "number", "boolean"} => a.v = b.v)

\* obj?.field : undefined when obj is undefined or null
Opt(obj, field) == IF obj.t \in {"undefined", "null"} THEN Undef ELSE obj[field]

Digits == <<"0", "1", "2", "3", "4", "5", "6", "7", "8", "9">>
DigitChars == {Digits[i] : i \in 1..10}
DigitVal(c) == (CHOOSE i \in 1..10 : Digits[i] = c) - 1

RECURSIVE NatToString(_)
NatToString(n) ==
  IF n < 10 THEN <<Digits[n + 1]>>
  ELSE NatToString(n \div 10) \o <<Digits[(n % 10) + 1]>>

\* Number.prototype.toString for the integers of the model
NumToString(n) == IF n < 0 THEN <<"-">> \o NatToString(-n) ELSE NatToString(n)

\* ToString, as String(x) and RegExp.prototype.test apply it
ToStringJS(x) ==
  CASE x.t = "undefined" -> <<"u", "n", "d", "e", "f", "i", "n", "e", "d">>
    [] x.t = "null" -> <<"n", "u", "l", "l">>
    [] x.t = "NaN" -> <<"N", "a", "N">>
    [] x.t = "string" -> x.v
    [] x.t = "number" -> NumToString(x.v)
    [] x.t = "boolean" -> IF x.v THEN <<"t", "r", "u", "e">>
                          ELSE <<"f", "a", "l", "s", "e">>

(***************************************************************************)
(* String helpers of the JavaScript library, on character sequences.       *)
(***************************************************************************)
\* The white space of String.prototype.trim and of \s that the model's
\* alphabets hold.
WhiteSpace == {" ", "\t", "\n", "\r"}

\* The line terminators, which "." does not match.
LineTerminators == {"\n", "\r"}

RECURSIVE TrimStart(_)
TrimStart(s) ==
  IF s # <<>> /\ Head(s) \in WhiteSpace THEN TrimStart(Tail(s)) ELSE s

RECURSIVE TrimEnd(_)
TrimEnd(s) ==
  IF s # <<>> /\ s[Len(s)] \in WhiteSpace
  THEN TrimEnd(SubSeq(s, 1, Len(s) - 1))
  ELSE s

\* String.prototype.trim
Trim(s) == TrimEnd(TrimStart(s))

\* String.prototype.includes for a one-character needle
Includes(s, c) == \E i \in 1..Len(s) : s[i] = c

\* String.prototype.split for a one-character separator: the empty string
\* splits to one empty element.
RECURSIVE Split(_, _)
Split(s, sep) ==
  IF ~Includes(s, sep) THEN <<s>>
  ELSE LET i == CHOOSE k \in 1..Len(s) :
                  s[k] = sep /\ \A j \in 1..(k - 1) : s[j] # sep
       IN <<SubSeq(s, 1, i - 1)>> \o Split(SubSeq(s, i + 1, Len(s)), sep)

\* .map((x) => x.trim())
MapTrim(xs) == [i \in 1..Len(xs) |-> Trim(xs[i])]

\* .filter((x) => x.length > 0)
RECURSIVE FilterNonEmpty(_)
FilterNonEmpty(xs) ==
  IF xs = <<>> THEN <<>>
  ELSE IF Len(Head(xs)) > 0 THEN <<Head(xs)>> \o FilterNonEmpty(Tail(xs))
  ELSE FilterNonEmpty(Tail(xs))

\* Array.prototype.includes on an array of strings
ArrayIncludes(xs, x) == \E i \in 1..Len(xs) : xs[i] = x

RECURSIVE DigitPrefix(_)
DigitPrefix(s) ==
  IF s # <<>> /\ Head(s) \in DigitChars THEN <<Head(s)>> \o DigitPrefix(Tail(s))
  ELSE <<>>

RECURSIVE DigitsToNat(_)
DigitsToNat(ds) ==
  IF ds = <<>> THEN 0
  ELSE 10 * DigitsToNat(SubSeq(ds, 1, Len(ds) - 1)) + DigitVal(ds[Len(ds)])

\* parseInt(s, 10): leading white space is skipped, one sign is read, then
\* the longest run of decimal digits; no digit at all gives NaN.
ParseInt(s) ==
  LET t == TrimStart(s)
      signed == t # <<>> /\ Head(t) \in {"-", "+"}
      neg == t # <<>> /\ Head(t) = "-"
      ds == DigitPrefix(IF signed THEN Tail(t) ELSE t)
  IN IF ds = <<>> THEN NaN
     ELSE Num(IF neg THEN 0 - DigitsToNat(ds) ELSE DigitsToNat(ds))

(***************************************************************************)
(* The trigger-phrase regular expression (part_000, lines 118-120, 206-208) *)
(***************************************************************************)
\* The characters escapeRegExp escapes: [.*+?^${}()|[\]\\]
RegExpSpecial ==
  {".", "*", "+", "?", "^", "$", "{", "}", "(", ")", "|", "[", "]", "\\"}

\* Mutant of escapeRegExp: nothing is escaped.
escapeRegExp_Identity(string) == string

\* string.replace(/[.*+?^${}()|[\]\\]/g, "\\$&")
RECURSIVE escapeRegExp(_)
escapeRegExp(string) ==
  IF string = <<>> THEN <<>>
  ELSE (IF Head(string) \in RegExpSpecial THEN <<"\\", Head(string)>>
        ELSE <<Head(string)>>) \o escapeRegExp(Tail(string))

\* The atoms the RegExp constructor compiles a pattern source into: a
\* backslash makes the next character literal, a bare "." matches any
\* character but a line terminator, any other character stands for itself.
\* (Of the special characters the model's alphabets hold only "." and the
\* backslash, so no quantifier, group or class is met here.)
RECURSIVE PatternAtoms(_)
PatternAtoms(src) ==
  IF src = <<>> THEN <<>>
  ELSE IF Head(src) = "\\" /\ Len(src) >= 2
       THEN <<[kind |-> "char", c |-> src[2]]>>
            \o PatternAtoms(SubSeq(src, 3, Len(src)))
  ELSE IF Head(src) = "."
       THEN <<[kind |-> "any", c |-> "."]>> \o PatternAtoms(Tail(src))
  ELSE <<[kind |-> "char", c |-> Head(src)]>> \o PatternAtoms(Tail(src))

AtomMatches(a, ch) ==
  IF a.kind = "any" THEN ch \notin LineTerminators ELSE ch = a.c

\* new RegExp(`(^|\\s)${escapeRegExp(triggerPhrase)}([\\s.,!?;:]|$)`):
\* the group before is the start of the text or one \s character, the
\* group after is one character of [\s.,!?;:] or the end of the text.
TriggerRegExp(triggerPhrase) ==
  [before |-> WhiteSpace,
   atoms |-> PatternAtoms(escapeRegExp(triggerPhrase)),
   after |-> WhiteSpace \cup {".", ",", "!", "?", ";", ":"}]

\* regex.test(value): the argument is converted with ToString, and the
\* pattern (no flags) may match at any position.
RegExpTest(regex, value) ==
  LET text == ToStringJS(value)
      n == Len(text)
      m == Len(regex.atoms)
  IN \E i \in 1..(n + 1) :
       /\ (i = 1 \/ text[i - 1] \in regex.before)
       /\ i + m - 1 <= n
       /\ \A k \in 1..m : AtomMatches(regex.atoms[k], text[i + k - 1])
       /\ (i + m = n + 1 \/ text[i + m] \in regex.after)

(***************************************************************************)
(* parseGitHubContext (context.ts, lines 44-166)                           *)
(***************************************************************************)
DefaultTriggerPhrase == <<"@", "c", "l", "a", "u", "d", "e">>

\* Mutant of ParseLabelTriggers: commas are the only separators.
ParseLabelTriggers_CommaOnly(raw) ==
  LET labelTriggerInput == Coalesce(raw, Str(<<>>))
  IN IF ~Truthy(labelTriggerInput) THEN <<>>
     ELSE FilterNonEmpty(MapTrim(Split(labelTriggerInput.v, ",")))

\* inputs.labelTriggers, context.ts lines 60-77
ParseLabelTriggers(raw) ==
  LET labelTriggerInput == Coalesce(raw, Str(<<>>))
  IN IF ~Truthy(labelTriggerInput) THEN <<>>
     ELSE IF Includes(labelTriggerInput.v, "\n")
          THEN FilterNonEmpty(MapTrim(Split(labelTriggerInput.v, "\n")))
     ELSE FilterNonEmpty(MapTrim(Split(labelTriggerInput.v, ",")))

\* Mutant of ParseTools: the two-mode policy of the label triggers.
ParseTools_TwoMode(raw) == ParseLabelTriggers(raw)

\* inputs.allowedTools and inputs.disallowedTools, context.ts lines 78-85
ParseTools(raw) ==
  FilterNonEmpty(MapTrim(Split(Coalesce(raw, Str(<<>>)).v, ",")))

\* commonFields.inputs, context.ts lines 57-89
ParseInputs(e) ==
  [triggerPhrase |-> Coalesce(e.TRIGGER_PHRASE, Str(DefaultTriggerPhrase)).v,
   assigneeTrigger |-> Coalesce(e.ASSIGNEE_TRIGGER, Str(<<>>)).v,
   labelTriggers |-> ParseLabelTriggers(e.LABEL_TRIGGER),
   allowedTools |-> ParseTools(e.ALLOWED_TOOLS),
   disallowedTools |-> ParseTools(e.DISALLOWED_TOOLS),
   customInstructions |-> Coalesce(e.CUSTOM_INSTRUCTIONS, Str(<<>>)).v,
   directPrompt |-> Coalesce(e.DIRECT_PROMPT, Str(<<>>)).v,
   baseBranch |-> e.BASE_BRANCH]

\* Mutant of SupportedEvents: the switch has no repository_dispatch case.
SupportedEvents_NoRepositoryDispatch ==
  {"issues", "issue_comment", "pull_request", "pull_request_review",
   "pull_request_review_comment", "workflow_dispatch"}

SupportedEvents ==
  {"issues", "issue_comment", "pull_request", "pull_request_review",
   "pull_request_review_comment", "repository_dispatch", "workflow_dispatch"}

\* prNumber ? parseInt(prNumber.toString(), 10) : 0
DispatchEntityNumber(prNumber) ==
  IF Truthy(prNumber) THEN ParseInt(ToStringJS(prNumber)) ELSE Num(0)

\* The switch of context.ts lines 92-165: the entity number and the PR flag
\* of each event kind.
EntityNumber(ev) ==
  CASE ev.eventName \in {"issues", "issue_comment"} -> ev.payload.issue.number
    [] ev.eventName \in {"pull_request", "pull_request_review",
                         "pull_request_review_comment"} ->
         ev.payload.pull_request.number
    [] ev.eventName = "repository_dispatch" ->
         DispatchEntityNumber(Opt(ev.payload.client_payload, "pr_number"))
    [] ev.eventName = "workflow_dispatch" ->
         DispatchEntityNumber(Opt(ev.payload.inputs, "pr_number"))

IsPR(ev) ==
  CASE ev.eventName = "issues" -> FALSE
    [] ev.eventName = "issue_comment" -> Truthy(ev.payload.issue.pull_request)
    [] ev.eventName \in {"pull_request", "pull_request_review",
                         "pull_request_review_comment"} -> TRUE
    [] ev.eventName = "repository_dispatch" ->
         \/ StrictEq(Opt(ev.payload.client_payload, "is_pr"), Bool(TRUE))
         \/ Truthy(Opt(ev.payload.client_payload, "pr_number"))
    [] ev.eventName = "workflow_dispatch" ->
         \/ StrictEq(Opt(ev.payload.inputs, "is_pr"),
                     Str(<<"t", "r", "u", "e">>))
         \/ Truthy(Opt(ev.payload.inputs, "pr_number"))

\* The result of parseGitHubContext: a context, or the thrown error.
parseGitHubContext(ev, e) ==
  IF ev.eventName \in SupportedEvents
  THEN [threw |-> FALSE,
        value |-> [runId |-> e.GITHUB_RUN_ID,
                   eventName |-> ev.eventName,
                   eventAction |-> ev.payload.action,
                   repository |-> ev.repo,
                   actor |-> ev.actor,
                   payload |-> ev.payload,
                   entityNumber |-> EntityNumber(ev),
                   isPR |-> IsPR(ev),
                   inputs |-> ParseInputs(e)]]
  ELSE [threw |-> TRUE,
        value |-> [message |-> "Unsupported event type: ",
                   eventName |-> ev.eventName]]

(***************************************************************************)
(* checkContainsTrigger and checkTriggerAction (part_000)                   *)
(***************************************************************************)
isIssuesEvent(ctx) == ctx.eventName = "issues"
isIssueCommentEvent(ctx) == ctx.eventName = "issue_comment"
isPullRequestEvent(ctx) == ctx.eventName = "pull_request"
isPullRequestReviewEvent(ctx) == ctx.eventName = "pull_request_review"
isPullRequestReviewCommentEvent(ctx) ==
  ctx.eventName = "pull_request_review_comment"
isWorkflowDispatchEvent(ctx) == ctx.eventName = "workflow_dispatch"
isRepositoryDispatchEvent(ctx) == ctx.eventName = "repository_dispatch"

\* core.getInput(name): the INPUT_<NAME> environment value, trimmed, the
\* empty string when it is not set.
CoreGetInput(e, key) == Str(Trim(Or(e[key], Str(<<>>)).v))

\* assigneeTrigger.replace(/^@/, "")
StripAt(assigneeTrigger) ==
  IF assigneeTrigger # <<>> /\ Head(assigneeTrigger) = "@"
  THEN Tail(assigneeTrigger)
  ELSE assigneeTrigger

Decision(ret, msg, arg) == [ret |-> ret, log |-> [msg |-> msg, arg |-> arg]]

\* Mutant of WorkflowDispatchRule: only the dispatch inputs are read.
WorkflowDispatchRule_InputsOnly(ctx, e) ==
  LET prNumber == Opt(ctx.payload.inputs, "pr_number")
      workflowPrompt == Opt(ctx.payload.inputs, "prompt")
  IN IF Truthy(prNumber)
     THEN Decision(TRUE, "Workflow dispatch triggered for PR #",
                   ToStringJS(prNumber))
     ELSE IF Truthy(workflowPrompt)
     THEN Decision(TRUE, "Workflow dispatch with direct prompt", <<>>)
     ELSE Decision(FALSE,
            "Workflow dispatch triggered but no PR number or prompt provided",
            <<>>)

\* part_000 lines 26-54
WorkflowDispatchRule(ctx, e) ==
  LET prNumber == Or(Or(Opt(ctx.payload.inputs, "pr_number"),
                        CoreGetInput(e, "INPUT_PR_NUMBER")),
                     e.PR_NUMBER)
      workflowPrompt == Or(Or(Opt(ctx.payload.inputs, "prompt"),
                              CoreGetInput(e, "INPUT_PROMPT")),
                           e.PROMPT)
  IN IF Truthy(prNumber)
     THEN Decision(TRUE, "Workflow dispatch triggered for PR #",
                   ToStringJS(prNumber))
     ELSE IF Truthy(workflowPrompt)
     THEN Decision(TRUE, "Workflow dispatch with direct prompt", <<>>)
     ELSE Decision(FALSE,
            "Workflow dispatch triggered but no PR number or prompt provided",
            <<>>)

\* Mutant of RepositoryDispatchRule: the issue number is checked first.
RepositoryDispatchRule_IssueFirst(ctx) ==
  LET prNumber == Opt(ctx.payload.client_payload, "pr_number")
      issueNumber == Opt(ctx.payload.client_payload, "issue_number")
      repositoryPrompt == Opt(ctx.payload.client_payload, "prompt")
  IN IF Truthy(issueNumber)
     THEN Decision(TRUE, "Repository dispatch triggered for issue #",
                   ToStringJS(issueNumber))
     ELSE IF Truthy(prNumber)
     THEN Decision(TRUE, "Repository dispatch triggered for PR #",
                   ToStringJS(prNumber))
     ELSE IF Truthy(repositoryPrompt)
     THEN Decision(TRUE, "Repository dispatch with direct prompt", <<>>)
     ELSE Decision(FALSE,
            "Repository dispatch triggered but no PR number, issue number or prompt provided",
            <<>>)

\* part_000 lines 56-84
RepositoryDispatchRule(ctx) ==
  LET prNumber == Opt(ctx.payload.client_payload, "pr_number")
      issueNumber == Opt(ctx.payload.client_payload, "issue_number")
      repositoryPrompt == Opt(ctx.payload.client_payload, "prompt")
  IN IF Truthy(prNumber)
     THEN Decision(TRUE, "Repository dispatch triggered for PR #",
                   ToStringJS(prNumber))
     ELSE IF Truthy(issueNumber)
     THEN Decision(TRUE, "Repository dispatch triggered for issue #",
                   ToStringJS(issueNumber))
     ELSE IF Truthy(repositoryPrompt)
     THEN Decision(TRUE, "Repository dispatch with direct prompt", <<>>)
     ELSE Decision(FALSE,
            "Repository dispatch triggered but no PR number, issue number or prompt provided",
            <<>>)

\* Mutant of AssigneeRule: an empty trigger user is not ruled out.
AssigneeRule_NoEmptyCheck(ctx) ==
  /\ isIssuesEvent(ctx)
  /\ StrictEq(ctx.eventAction, Str("assigned"))
  /\ LET triggerUser == StripAt(ctx.inputs.assigneeTrigger)
         assigneeUsername ==
           Or(Opt(ctx.payload.issue.assignee, "login"), Str(<<>>))
     IN StrictEq(assigneeUsername, Str(triggerUser))

\* part_000 lines 86-96: the condition of the assignee rule
AssigneeRule(ctx) ==
  /\ isIssuesEvent(ctx)
  /\ StrictEq(ctx.eventAction, Str("assigned"))
  /\ LET triggerUser == StripAt(ctx.inputs.assigneeTrigger)
         assigneeUsername ==
           Or(Opt(ctx.payload.issue.assignee, "login"), Str(<<>>))
     IN Len(triggerUser) > 0 /\ StrictEq(assigneeUsername, Str(triggerUser))

\* Mutant of LabelRule: a label name that starts a trigger label matches.
LabelRule_Prefix(ctx) ==
  /\ isIssuesEvent(ctx)
  /\ StrictEq(ctx.eventAction, Str("labeled"))
  /\ LET labelName == Or(Opt(ctx.payload.label, "name"), Str(<<>>))
         triggers == ctx.inputs.labelTriggers
     IN /\ Len(triggers) > 0
        /\ Truthy(labelName)
        /\ \E i \in 1..Len(triggers) :
             /\ Len(labelName.v) <= Len(triggers[i])
             /\ SubSeq(triggers[i], 1, Len(labelName.v)) = labelName.v

\* part_000 lines 98-111: the condition of the label rule
LabelRule(ctx) ==
  /\ isIssuesEvent(ctx)
  /\ StrictEq(ctx.eventAction, Str("labeled"))
  /\ LET labelName == Or(Opt(ctx.payload.label, "name"), Str(<<>>))
     IN /\ Len(ctx.inputs.labelTriggers) > 0
        /\ Truthy(labelName)
        /\ ArrayIncludes(ctx.inputs.labelTriggers, labelName.v)

\* Mutant of IssueOpened: the action of the issues event is not looked at.
IssueOpened_AnyAction(ctx) == isIssuesEvent(ctx)

\* part_000 lines 114-137: issue creation, the body and then the title
IssueOpened(ctx) ==
  isIssuesEvent(ctx) /\ StrictEq(ctx.eventAction, Str("opened"))

IssueBodyRule(ctx) ==
  /\ IssueOpened(ctx)
  /\ RegExpTest(TriggerRegExp(ctx.inputs.triggerPhrase),
                Or(ctx.payload.issue.body, Str(<<>>)))

IssueTitleRule(ctx) ==
  /\ IssueOpened(ctx)
  /\ RegExpTest(TriggerRegExp(ctx.inputs.triggerPhrase),
                Or(ctx.payload.issue.title, Str(<<>>)))

\* part_000 lines 140-163: a pull request, the body and then the title
PullRequestBodyRule(ctx) ==
  /\ isPullRequestEvent(ctx)
  /\ RegExpTest(TriggerRegExp(ctx.inputs.triggerPhrase),
                Or(ctx.payload.pull_request.body, Str(<<>>)))

\* Mutant of PullRequestTitleRule: the title counts on "opened" only.
PullRequestTitleRule_OpenedOnly(ctx) ==
  /\ isPullRequestEvent(ctx)
  /\ StrictEq(ctx.eventAction, Str("opened"))
  /\ RegExpTest(TriggerRegExp(ctx.inputs.triggerPhrase),
                Or(ctx.payload.pull_request.title, Str(<<>>)))

PullRequestTitleRule(ctx) ==
  /\ isPullRequestEvent(ctx)
  /\ RegExpTest(TriggerRegExp(ctx.inputs.triggerPhrase),
                Or(ctx.payload.pull_request.title, Str(<<>>)))

\* part_000 lines 166-181: a review submitted or edited
ReviewRule(ctx) ==
  /\ isPullRequestReviewEvent(ctx)
  /\ \/ StrictEq(ctx.eventAction, Str("submitted"))
     \/ StrictEq(ctx.eventAction, Str("edited"))
  /\ RegExpTest(TriggerRegExp(ctx.inputs.triggerPhrase),
                Or(ctx.payload.review.body, Str(<<>>)))

\* part_000 lines 184-199: a comment; its body is handed to the regular
\* expression as it is.
CommentRule(ctx) ==
  /\ isIssueCommentEvent(ctx) \/ isPullRequestReviewCommentEvent(ctx)
  /\ RegExpTest(TriggerRegExp(ctx.inputs.triggerPhrase),
                ctx.payload.comment.body)

\* part_000 lines 113-204: the phrase rules, in the order of the code
PhraseRules(ctx) ==
  LET phrase == ctx.inputs.triggerPhrase
  IN IF IssueBodyRule(ctx)
     THEN Decision(TRUE, "Issue body contains exact trigger phrase", phrase)
     ELSE IF IssueTitleRule(ctx)
     THEN Decision(TRUE, "Issue title contains exact trigger phrase", phrase)
     ELSE IF PullRequestBodyRule(ctx)
     THEN Decision(TRUE, "Pull request body contains exact trigger phrase",
                   phrase)
     ELSE IF PullRequestTitleRule(ctx)
     THEN Decision(TRUE, "Pull request title contains exact trigger phrase",
                   phrase)
     ELSE IF ReviewRule(ctx)
     THEN Decision(TRUE, "Pull request review contains exact trigger phrase",
                   phrase)
     ELSE IF CommentRule(ctx)
     THEN Decision(TRUE, "Comment contains exact trigger phrase", phrase)
     ELSE Decision(FALSE, "No trigger was met for", phrase)

\* Mutant of checkContainsTrigger: the dispatch rules come before the direct
\* prompt.
checkContainsTrigger_DispatchFirst(ctx, e) ==
  IF isWorkflowDispatchEvent(ctx) THEN WorkflowDispatchRule(ctx, e)
  ELSE IF isRepositoryDispatchEvent(ctx) THEN RepositoryDispatchRule(ctx)
  ELSE IF Len(ctx.inputs.directPrompt) > 0
  THEN Decision(TRUE, "Direct prompt provided, triggering action", <<>>)
  ELSE IF AssigneeRule(ctx)
  THEN Decision(TRUE, "Issue assigned to trigger user",
                StripAt(ctx.inputs.assigneeTrigger))
  ELSE IF LabelRule(ctx)
  THEN Decision(TRUE, "Issue labeled with trigger label",
                ctx.payload.label.name.v)
  ELSE PhraseRules(ctx)

\* Mutant of checkContainsTrigger: the PR_NUMBER of the environment
\* activates an event of any kind.
checkContainsTrigger_AmbientPrNumber(ctx, e) ==
  IF Len(ctx.inputs.directPrompt) > 0
  THEN Decision(TRUE, "Direct prompt provided, triggering action", <<>>)
  ELSE IF Truthy(e.PR_NUMBER)
  THEN Decision(TRUE, "Workflow dispatch triggered for PR #",
                ToStringJS(e.PR_NUMBER))
  ELSE IF isWorkflowDispatchEvent(ctx) THEN WorkflowDispatchRule(ctx, e)
  ELSE IF isRepositoryDispatchEvent(ctx) THEN RepositoryDispatchRule(ctx)
  ELSE IF AssigneeRule(ctx)
  THEN Decision(TRUE, "Issue assigned to trigger user",
                StripAt(ctx.inputs.assigneeTrigger))
  ELSE IF LabelRule(ctx)
  THEN Decision(TRUE, "Issue labeled with trigger label",
                ctx.payload.label.name.v)
  ELSE PhraseRules(ctx)

\* part_000 lines 15-204: the value returned and the line logged
checkContainsTrigger(ctx, e) ==
  IF Len(ctx.inputs.directPrompt) > 0
  THEN Decision(TRUE, "Direct prompt provided, triggering action", <<>>)
  ELSE IF isWorkflowDispatchEvent(ctx) THEN WorkflowDispatchRule(ctx, e)
  ELSE IF isRepositoryDispatchEvent(ctx) THEN RepositoryDispatchRule(ctx)
  ELSE IF AssigneeRule(ctx)
  THEN Decision(TRUE, "Issue assigned to trigger user",
                StripAt(ctx.inputs.assigneeTrigger))
  ELSE IF LabelRule(ctx)
  THEN Decision(TRUE, "Issue labeled with trigger label",
                ctx.payload.label.name.v)
  ELSE PhraseRules(ctx)

(***************************************************************************)
(* The inputs of a run: the platform event and the process environment.    *)
(***************************************************************************)
Obj(fields) == fields @@ [t |-> "object"]

SeqsUpTo(S, n) == UNION {[1..k -> S] : k \in 0..n}

Repo == [owner |-> "owner", repo |-> "repo", full_name |-> "owner/repo"]

Event(name, payload) ==
  [eventName |-> name, payload |-> payload, repo |-> Repo, actor |-> "user"]

\* The environment with nothing set but the run id.
BaseEnv ==
  [GITHUB_RUN_ID |-> Str(<<"1">>), TRIGGER_PHRASE |-> Undef,
   ASSIGNEE_TRIGGER |-> Undef, LABEL_TRIGGER |-> Undef,
   ALLOWED_TOOLS |-> Undef, DISALLOWED_TOOLS |-> Undef,
   CUSTOM_INSTRUCTIONS |-> Undef, DIRECT_PROMPT |-> Undef,
   BASE_BRANCH |-> Undef, INPUT_PR_NUMBER |-> Undef, INPUT_PROMPT |-> Undef,
   PR_NUMBER |-> Undef, PROMPT |-> Undef]

EnvWith(set) == set @@ BaseEnv

Run(ev, e) == [event |-> ev, env |-> e]

\* Texts of the examples.
TxClaude == DefaultTriggerPhrase
TxHit == <<"h", "i", " ">> \o TxClaude \o <<",">>
TxMiss == TxClaude \o <<"s", "o", "m", "e">>
TxHelp == TxClaude \o <<" ", "p", "l", "e", "a", "s", "e">>
TxGlued == <<"f", "o", "o">> \o TxClaude
TxTab == TxClaude \o <<"\t", "x">>
TxNewline == TxClaude \o <<"\n", "x">>
TxNull == <<"n", "u", "l", "l">>
TxUndefined == <<"u", "n", "d", "e", "f", "i", "n", "e", "d">>
TxBot == <<"b", "o", "t">>
TxFix == <<"f", "i", "x">>
TxGo == <<"g", "o">>

DirectPrompts == {Undef, Str(<<>>), Str(TxGo)}
TriggerPhrases == {Undef, Str(TxNull)}
AssigneeTriggers ==
  {Undef, Str(<<"@">> \o TxBot), Str(TxBot), Str(<<"@", "@">> \o TxBot),
   Str(<<"@">>)}
Assignees ==
  {Null, Obj([login |-> Str(TxBot)]), Obj([login |-> Str(<<"B", "o", "t">>)]),
   Obj([login |-> Str(TxBot \o <<"2">>)]),
   Obj([login |-> Str(<<"@">> \o TxBot)]), Obj([login |-> Str(<<>>)])}
LabelSources == {Undef, Str(TxFix \o <<",", " ">> \o TxBot)}
Labels ==
  {Undef, Obj([name |-> Str(TxFix)]), Obj([name |-> Str(<<"F", "i", "x">>)]),
   Obj([name |-> Str(<<"f", "i">>)]), Obj([name |-> Str(TxFix \o <<"x">>)]),
   Obj([name |-> Str(TxBot)])}
Bodies == {Null, Str(TxHit), Str(TxMiss)}
Titles == {Null, Str(TxMiss), Str(TxHelp)}
CommentBodies ==
  {Undef, Null, Str(TxHit), Str(TxMiss), Str(TxNull), Str(TxUndefined)}
PrNumbers ==
  {Undef, Num(7), Num(0), Num(-3), Str(<<"7">>), Str(<<"4", "2">>),
   Str(<<"a", "b", "c">>), Str(<<"-", "3">>), Str(<<>>)}
IssueNumbers == {Undef, Num(5)}
Prompts == {Undef, Str(TxGo)}

IssuesRuns ==
  {Run(Event("issues",
             [action |-> Str(a),
              issue |-> Obj([number |-> Num(5), title |-> ti, body |-> b,
                             assignee |-> as]),
              label |-> lb]),
       EnvWith([DIRECT_PROMPT |-> dp, ASSIGNEE_TRIGGER |-> at,
                LABEL_TRIGGER |-> lt])) :
     a \in {"assigned", "labeled", "opened", "edited", "closed"},
     ti \in Titles, b \in Bodies, as \in Assignees, lb \in Labels,
     dp \in {Undef, Str(TxGo)}, at \in AssigneeTriggers, lt \in LabelSources}

PullRequestRuns ==
  {Run(Event("pull_request",
             [action |-> Str(a),
              pull_request |-> Obj([number |-> Num(8), title |-> ti,
                                    body |-> b])]),
       EnvWith([DIRECT_PROMPT |-> dp, TRIGGER_PHRASE |-> tp])) :
     a \in {"opened", "edited", "synchronize", "closed"},
     ti \in Titles, b \in Bodies, dp \in DirectPrompts, tp \in TriggerPhrases}

ReviewRuns ==
  {Run(Event("pull_request_review",
             [action |-> Str(a),
              pull_request |-> Obj([number |-> Num(8), title |-> ti,
                                    body |-> Null]),
              review |-> Obj([body |-> b])]),
       EnvWith([DIRECT_PROMPT |-> dp, TRIGGER_PHRASE |-> tp])) :
     a \in {"submitted", "edited", "dismissed"},
     ti \in Titles, b \in Bodies, dp \in DirectPrompts, tp \in TriggerPhrases}

CommentRuns ==
  {Run(Event("issue_comment",
             [action |-> Str("created"),
              issue |-> Obj([number |-> Num(5), title |-> Str(TxHelp),
                             body |-> Str(TxHit), pull_request |-> pr]),
              comment |-> Obj([body |-> b])]),
       EnvWith([DIRECT_PROMPT |-> dp, TRIGGER_PHRASE |-> tp])) :
     pr \in {Undef, Obj([url |-> Str(<<"u">>)])}, b \in CommentBodies,
     dp \in DirectPrompts,
     tp \in TriggerPhrases \cup {Str(TxUndefined)}}
  \cup
  {Run(Event("pull_request_review_comment",
             [action |-> Str("created"),
              pull_request |-> Obj([number |-> Num(8), title |-> Str(TxHelp),
                                    body |-> Str(TxHit)]),
              comment |-> Obj([body |-> b])]),
       EnvWith([DIRECT_PROMPT |-> dp, TRIGGER_PHRASE |-> tp])) :
     b \in CommentBodies, dp \in DirectPrompts,
     tp \in TriggerPhrases \cup {Str(TxUndefined)}}

ClientPayloads ==
  {Undef} \cup
  {Obj([pr_number |-> pn, issue_number |-> n, prompt |-> pm, is_pr |-> ip]) :
     pn \in PrNumbers, n \in IssueNumbers, pm \in Prompts,
     ip \in {Undef, Bool(TRUE)}}

RepositoryDispatchRuns ==
  {Run(Event("repository_dispatch",
             [action |-> Str("run"), client_payload |-> cp]),
       EnvWith([DIRECT_PROMPT |-> dp, TRIGGER_PHRASE |-> tp,
                ASSIGNEE_TRIGGER |-> at, LABEL_TRIGGER |-> lt])) :
     cp \in ClientPayloads, dp \in DirectPrompts, tp \in TriggerPhrases,
     at \in {Undef, Str(TxBot)}, lt \in LabelSources}

DispatchInputs ==
  {Undef} \cup
  {Obj([pr_number |-> pn, prompt |-> pm, is_pr |-> ip]) :
     pn \in PrNumbers, pm \in Prompts,
     ip \in {Undef, Str(<<"t", "r", "u", "e">>)}}

WorkflowDispatchRuns ==
  {Run(Event("workflow_dispatch", [action |-> Undef, inputs |-> di]),
       EnvWith([DIRECT_PROMPT |-> dp, INPUT_PR_NUMBER |-> ipn,
                PR_NUMBER |-> epn, INPUT_PROMPT |-> ipm, PROMPT |-> epm])) :
     di \in DispatchInputs, dp \in {Undef, Str(TxGo)},
     ipn \in {Undef, Str(<<" ">>), Str(<<"9">>)}, epn \in {Undef, Str(<<"8">>)},
     ipm \in {Undef, Str(TxGo)}, epm \in {Undef, Str(<<>>), Str(TxGo)}}

UnsupportedRuns ==
  {Run(Event(n, [action |-> Undef]), EnvWith([DIRECT_PROMPT |-> dp])) :
     n \in {"push", "schedule", "issue"}, dp \in DirectPrompts}

\* The matcher on every short text: a comment whose body is the text.
MatchChars == {"a", ".", "x", "\t"}
PhraseChars == {"a", "."}
ExampleTexts ==
  {<<>>, TxClaude, TxHit, TxHelp, TxMiss, TxGlued, TxTab, TxNewline}

MatcherRun(phrase, text) ==
  Run(Event("issue_comment",
            [action |-> Str("created"),
             issue |-> Obj([number |-> Num(5), title |-> Str(<<>>),
                            body |-> Null, pull_request |-> Undef]),
             comment |-> Obj([body |-> Str(text)])]),
      EnvWith([TRIGGER_PHRASE |-> phrase]))

MatcherRuns ==
  {MatcherRun(Str(p), t) :
     p \in SeqsUpTo(PhraseChars, MaxPhraseLen),
     t \in SeqsUpTo(MatchChars, MaxTextLen)}
  \cup {MatcherRun(Undef, t) : t \in ExampleTexts}

\* The list parsers on every short source string: the three lists are
\* given the same source.
ListChars == {"a", "b", ",", "\n", " "}
TxTool1 == <<"T", "o", "o", "l", "1">>
TxTool2 == <<"T", "o", "o", "l", "2">>
ExampleLists ==
  {<<"a", ",", "b", ",", "c">>, <<"a", "\n", "b", "\n", "c">>,
   <<" ", " ", "a", " ", ",", " ", " ", "b", " ", ",", " ", " ", "c", " ",
     " ">>,
   <<"a", "\n", "\n", "b", "\n", "\n", "c", "\n">>,
   <<"a", "\n", " ", " ", "b", " ", "\n", "\t", "c", "\t">>,
   TxTool1 \o <<"\n">> \o TxTool2, TxTool1 \o <<",">> \o TxTool2}

ListRun(src) ==
  Run(Event("issues",
            [action |-> Str("labeled"),
             issue |-> Obj([number |-> Num(5), title |-> Str(<<>>),
                            body |-> Null, assignee |-> Null]),
             label |-> Obj([name |-> Str(<<"a">>)])]),
      EnvWith([LABEL_TRIGGER |-> src, ALLOWED_TOOLS |-> src,
               DISALLOWED_TOOLS |-> src]))

ListRuns ==
  {ListRun(Str(s)) : s \in SeqsUpTo(ListChars, MaxListLen) \cup ExampleLists}
  \cup {ListRun(Undef)}

(***************************************************************************)
(* The run: parseGitHubContext, then checkTriggerAction on its result.     *)
(***************************************************************************)
NoLog == [msg |-> "", arg |-> <<>>]

\* A run starts from one event and one environment.
Start(R) == \E r \in R : event = r.event /\ env = r.env

Init ==
  /\ \/ Start(IssuesRuns)
     \/ Start(PullRequestRuns)
     \/ Start(ReviewRuns)
     \/ Start(CommentRuns)
     \/ Start(RepositoryDispatchRuns)
     \/ Start(WorkflowDispatchRuns)
     \/ Start(UnsupportedRuns)
     \/ Start(MatcherRuns)
     \/ Start(ListRuns)
  /\ pc = "start"
  /\ context = Undef
  /\ outcome = Undef
  /\ output = Undef
  /\ log = NoLog

\* const context = parseGitHubContext(): the run ends here when it throws.
ParseGitHubContext ==
  /\ pc = "start"
  /\ LET r == parseGitHubContext(event, env)
     IN /\ pc' = IF r.threw THEN "threw" ELSE "parsed"
        /\ context' = r.value
  /\ UNCHANGED <<event, env, outcome, output, log>>

\* checkTriggerAction(context): part_000 lines 210-214
CheckTriggerAction ==
  /\ pc = "parsed"
  /\ LET d == checkContainsTrigger(context, env)
     IN /\ outcome' = Bool(d.ret)
        /\ log' = d.log
        /\ output' = Str(ToStringJS(Bool(d.ret)))
  /\ pc' = "done"
  /\ UNCHANGED <<event, env, context>>

Next == ParseGitHubContext \/ CheckTriggerAction

Spec == Init /\ [][Next]_vars

(***************************************************************************)
(* A second call of checkTriggerAction on the same context, the process    *)
(* environment and the action inputs having possibly changed in between.   *)
(***************************************************************************)
InitRecall ==
  /\ \/ Start(PullRequestRuns)
     \/ Start(ReviewRuns)
     \/ Start(CommentRuns)
     \/ Start(RepositoryDispatchRuns)
     \/ Start(WorkflowDispatchRuns)
     \/ Start(UnsupportedRuns)
  /\ pc = "start"
  /\ context = Undef
  /\ outcome = Undef
  /\ output = Undef
  /\ log = NoLog

\* The environments that differ from e in the values the workflow_dispatch
\* branch reads (part_000 lines 31-32 and 42-43).
AmbientVariants(e) ==
  {[e EXCEPT !.PR_NUMBER = Str(<<"8">>)],
   [e EXCEPT !.INPUT_PROMPT = Str(TxGo)],
   [e EXCEPT !.PR_NUMBER = Undef, !.INPUT_PR_NUMBER = Undef,
             !.PROMPT = Undef, !.INPUT_PROMPT = Undef]} \ {e}

\* Between two calls the environment changes; the context does not.
AmbientChange ==
  /\ pc = "done"
  /\ \E e \in AmbientVariants(env) : env' = e
  /\ pc' = "ambient"
  /\ UNCHANGED <<event, context, outcome, output, log>>

\* checkTriggerAction(context) called again: part_000 lines 210-214
CheckTriggerAgain ==
  /\ pc \in {"done", "ambient"}
  /\ LET d == checkContainsTrigger(context, env)
     IN /\ outcome' = Bool(d.ret)
        /\ log' = d.log
        /\ output' = Str(ToStringJS(Bool(d.ret)))
  /\ pc' = "again"
  /\ UNCHANGED <<event, env, context>>

NextRecall ==
  \/ ParseGitHubContext
  \/ CheckTriggerAction
  \/ AmbientChange
  \/ CheckTriggerAgain

SpecRecall == InitRecall /\ [][NextRecall]_vars

(***************************************************************************)
(* Properties.                                                             *)
(***************************************************************************)
Parsed == pc \in {"parsed", "done"}
Done == pc = "done"
Activated == outcome = Bool(TRUE)
NoDirectPrompt == context.inputs.directPrompt = <<>>

\* The value of an environment variable as a string, empty when not set.
Source(v) == IF v.t = "string" THEN v.v ELSE <<>>

\* A text field of a payload as a string, empty when absent.
TextOf(v) == IF v.t = "string" THEN v.v ELSE <<>>

\* C1: whenever the context's directPrompt is a non-empty string, the
\* decision is true, whatever the event and the rest of the configuration.
C1_DirectPromptActivates ==
  (Done /\ Len(context.inputs.directPrompt) > 0) => Activated

\* C1 witness: a workflow_dispatch with no PR number and no prompt in any
\* source, activated by the direct prompt alone.
C1_Witness ==
  /\ Done
  /\ context.eventName = "workflow_dispatch"
  /\ Len(context.inputs.directPrompt) > 0
  /\ context.payload.inputs = Undef
  /\ env.INPUT_PR_NUMBER = Undef /\ env.PR_NUMBER = Undef
  /\ env.INPUT_PROMPT = Undef /\ env.PROMPT = Undef
  /\ Activated

\* The phrase occurs literally in the text at index i.
OccursAt(phrase, text, i) ==
  /\ i + Len(phrase) - 1 <= Len(text)
  /\ SubSeq(text, i, i + Len(phrase) - 1) = phrase

\* A literal occurrence of the phrase that starts the text or follows a
\* white-space character, and ends the text or precedes one of `followers'.
BoundedOccurrence(phrase, text, followers) ==
  \E i \in 1..(Len(text) + 1) :
    /\ OccursAt(phrase, text, i)
    /\ (i = 1 \/ text[i - 1] \in WhiteSpace)
    /\ (i + Len(phrase) = Len(text) + 1 \/ text[i + Len(phrase)] \in followers)

Punctuation == {".", ",", "!", "?", ";", ":"}

\* A comment event with no direct prompt whose comment body is a string:
\* the decision is the matcher's answer on that body.
MatcherCase ==
  /\ Done
  /\ context.eventName \in {"issue_comment", "pull_request_review_comment"}
  /\ NoDirectPrompt
  /\ context.payload.comment.body.t = "string"

\* C2 as stated: the matcher matches iff the text holds a literal occurrence
\* of the phrase at the start or after white space, followed by the end of
\* the text or by one of space . , ! ? ; : (and by nothing else, so not by a
\* tab or a newline).
C2_Original ==
  MatcherCase =>
    (Activated <=>
       BoundedOccurrence(context.inputs.triggerPhrase,
                         context.payload.comment.body.v,
                         {" "} \cup Punctuation))

\* C2 amended: the matcher matches iff the text holds a literal occurrence
\* of the phrase at the start or after white space, followed by the end of
\* the text, by any white-space character (space, tab, newline, ...) or by
\* one of . , ! ? ; :
C2_MatcherBoundaries ==
  MatcherCase =>
    (Activated <=>
       BoundedOccurrence(context.inputs.triggerPhrase,
                         context.payload.comment.body.v,
                         WhiteSpace \cup Punctuation))

\* C2 witness: "@claude" followed by a tab matches.
C2_Witness ==
  /\ MatcherCase
  /\ context.inputs.triggerPhrase = TxClaude
  /\ context.payload.comment.body.v = TxTab
  /\ Activated

\* C3: a repository_dispatch with no direct prompt activates for a PR number,
\* else for an issue number, else for a prompt, else not; the PR number is
\* the one named when both numbers are carried; nothing else is consulted.
C3_RepositoryDispatchOrder ==
  (Done /\ context.eventName = "repository_dispatch" /\ NoDirectPrompt) =>
    LET cp == context.payload.client_payload
        pn == Opt(cp, "pr_number")
        n == Opt(cp, "issue_number")
        pm == Opt(cp, "prompt")
    IN IF Truthy(pn)
       THEN /\ Activated
            /\ log.msg = "Repository dispatch triggered for PR #"
            /\ log.arg = ToStringJS(pn)
       ELSE IF Truthy(n)
       THEN /\ Activated
            /\ log.msg = "Repository dispatch triggered for issue #"
            /\ log.arg = ToStringJS(n)
       ELSE IF Truthy(pm)
       THEN Activated /\ log.msg = "Repository dispatch with direct prompt"
       ELSE ~Activated

\* C3 witness: both a PR number and an issue number; the PR number is named.
C3_Witness ==
  /\ Done /\ context.eventName = "repository_dispatch" /\ NoDirectPrompt
  /\ context.payload.client_payload # Undef
  /\ context.payload.client_payload.pr_number = Num(7)
  /\ context.payload.client_payload.issue_number = Num(5)
  /\ Activated
  /\ log = [msg |-> "Repository dispatch triggered for PR #", arg |-> <<"7">>]

\* An action input is present when core.getInput gives a non-empty string.
InputPresent(v) == Trim(Source(v)) # <<>>

\* C4: a workflow_dispatch with no direct prompt activates when a PR number
\* is present in the dispatch inputs, the action input or the environment,
\* else when a prompt is present in one of the same three sources, else
\* not; the three outcomes log three different lines.
C4_WorkflowDispatchChain ==
  (Done /\ context.eventName = "workflow_dispatch" /\ NoDirectPrompt) =>
    LET inputs == context.payload.inputs
        hasPr == \/ Truthy(Opt(inputs, "pr_number"))
                 \/ InputPresent(env.INPUT_PR_NUMBER)
                 \/ Truthy(env.PR_NUMBER)
        hasPrompt == \/ Truthy(Opt(inputs, "prompt"))
                     \/ InputPresent(env.INPUT_PROMPT)
                     \/ Truthy(env.PROMPT)
    IN IF hasPr
       THEN Activated /\ log.msg = "Workflow dispatch triggered for PR #"
       ELSE IF hasPrompt
       THEN Activated /\ log.msg = "Workflow dispatch with direct prompt"
       ELSE /\ ~Activated
            /\ log.msg =
                 "Workflow dispatch triggered but no PR number or prompt provided"

\* C4 witness: no PR number anywhere and a prompt in the environment only.
C4_Witness ==
  /\ Done /\ context.eventName = "workflow_dispatch" /\ NoDirectPrompt
  /\ context.payload.inputs = Undef
  /\ env.INPUT_PR_NUMBER = Undef /\ env.PR_NUMBER = Undef
  /\ env.INPUT_PROMPT = Undef /\ env.PROMPT = Str(TxGo)
  /\ Activated
  /\ log.msg = "Workflow dispatch with direct prompt"

\* C5: an issues/assigned event with no direct prompt activates iff the
\* assignee trigger less one leading "@" is non-empty and is, character for
\* character, the login of the assignee.
C5_AssigneeExact ==
  (Done /\ context.eventName = "issues"
        /\ context.eventAction = Str("assigned") /\ NoDirectPrompt) =>
    LET trigger == context.inputs.assigneeTrigger
        stripped == IF trigger # <<>> /\ trigger[1] = "@"
                    THEN SubSeq(trigger, 2, Len(trigger))
                    ELSE trigger
        assignee == context.payload.issue.assignee
    IN Activated <=>
         /\ stripped # <<>>
         /\ assignee # Null
         /\ assignee.login = Str(stripped)

\* C5 witness: trigger "@bot", assignee "bot".
C5_Witness ==
  /\ Done /\ context.eventName = "issues"
  /\ context.eventAction = Str("assigned") /\ NoDirectPrompt
  /\ context.inputs.assigneeTrigger = <<"@">> \o TxBot
  /\ context.payload.issue.assignee # Null
  /\ context.payload.issue.assignee.login = Str(TxBot)
  /\ Activated

\* C6: an issues/labeled event with no direct prompt activates iff the label
\* triggers are not empty and the payload's label name is one of them,
\* string for string; a missing label never activates.
C6_LabelMembership ==
  (Done /\ context.eventName = "issues"
        /\ context.eventAction = Str("labeled") /\ NoDirectPrompt) =>
    LET triggers == context.inputs.labelTriggers
        label == context.payload.label
    IN Activated <=>
         /\ triggers # <<>>
         /\ label # Undef
         /\ \E i \in 1..Len(triggers) : Str(triggers[i]) = label.name

\* C6 witness: the label "fix" with the triggers "fix, bot".
C6_Witness ==
  /\ Done /\ context.eventName = "issues"
  /\ context.eventAction = Str("labeled") /\ NoDirectPrompt
  /\ context.inputs.labelTriggers = <<TxFix, TxBot>>
  /\ context.payload.label # Undef
  /\ context.payload.label.name = Str(TxFix)
  /\ Activated

\* The matcher's answer on a text, by C2 as amended.
PhraseIn(ctx, text) ==
  BoundedOccurrence(ctx.inputs.triggerPhrase, text,
                    WhiteSpace \cup Punctuation)

\* C7: with no direct prompt, an issues/opened event activates iff the phrase
\* is matched in the issue body or the issue title, and a pull_request event
\* of any action iff it is matched in the PR body or the PR title.
C7_BodyOrTitle ==
  /\ (Done /\ context.eventName = "issues"
           /\ context.eventAction = Str("opened") /\ NoDirectPrompt) =>
       (Activated <=>
          \/ PhraseIn(context, TextOf(context.payload.issue.body))
          \/ PhraseIn(context, TextOf(context.payload.issue.title)))
  /\ (Done /\ context.eventName = "pull_request" /\ NoDirectPrompt) =>
       (Activated <=>
          \/ PhraseIn(context, TextOf(context.payload.pull_request.body))
          \/ PhraseIn(context, TextOf(context.payload.pull_request.title)))

\* C7 witness: a closed pull request with no body whose title alone holds
\* the phrase.
C7_Witness ==
  /\ Done /\ context.eventName = "pull_request" /\ NoDirectPrompt
  /\ context.eventAction = Str("closed")
  /\ context.payload.pull_request.body = Null
  /\ context.payload.pull_request.title = Str(TxHelp)
  /\ context.inputs.triggerPhrase = TxClaude
  /\ Activated

\* The k-th smallest element of a set of integers.
Kth(S, k) == CHOOSE x \in S : Cardinality({y \in S : y < x}) = k - 1

\* The pieces of s between the occurrences of sep, in source order.
Pieces(s, sep) ==
  LET cuts == {0, Len(s) + 1} \cup {i \in 1..Len(s) : s[i] = sep}
  IN [k \in 1..(Cardinality(cuts) - 1) |->
        SubSeq(s, Kth(cuts, k) + 1, Kth(cuts, k + 1) - 1)]

\* t without its leading and trailing white space.
Stripped(t) ==
  LET ink == {i \in 1..Len(t) : t[i] \notin WhiteSpace}
  IN IF ink = {} THEN <<>>
     ELSE SubSeq(t, CHOOSE i \in ink : \A j \in ink : i <= j,
                    CHOOSE i \in ink : \A j \in ink : i >= j)

IsElement(t) == t # <<>>

\* The elements of s for the separator sep: the pieces, each stripped, the
\* empty ones dropped.
Elements(s, sep) ==
  LET ps == Pieces(s, sep)
  IN SelectSeq([k \in 1..Len(ps) |-> Stripped(ps[k])], IsElement)

\* The two-mode policy: newlines separate when there is one, commas else.
TwoMode(s) ==
  IF s = <<>> THEN <<>>
  ELSE IF \E i \in 1..Len(s) : s[i] = "\n" THEN Elements(s, "\n")
  ELSE Elements(s, ",")

\* C8: the parsed label triggers are the two-mode elements of the source
\* string, in source order; no element is empty or starts or ends with
\* white space.
C8_LabelTriggersParsing ==
  Parsed =>
    LET parsed == context.inputs.labelTriggers
    IN /\ parsed = TwoMode(Source(env.LABEL_TRIGGER))
       /\ \A i \in 1..Len(parsed) :
            /\ parsed[i] # <<>>
            /\ parsed[i][1] \notin WhiteSpace
            /\ parsed[i][Len(parsed[i])] \notin WhiteSpace

\* C8 witness: "a\n\nb\n\nc\n" parses to a, b, c.
C8_Witness ==
  /\ Parsed
  /\ env.LABEL_TRIGGER =
       Str(<<"a", "\n", "\n", "b", "\n", "\n", "c", "\n">>)
  /\ context.inputs.labelTriggers = <<(<<"a">>), (<<"b">>), (<<"c">>)>>

\* The three lists are given the same source string.
SameSource ==
  /\ env.ALLOWED_TOOLS = env.LABEL_TRIGGER
  /\ env.DISALLOWED_TOOLS = env.LABEL_TRIGGER

\* C9 as stated: a source string parses to the same sequence as allowed
\* tools, as disallowed tools and as label triggers.
C9_Original ==
  (Parsed /\ SameSource) =>
    /\ context.inputs.allowedTools = context.inputs.labelTriggers
    /\ context.inputs.disallowedTools = context.inputs.labelTriggers

\* C9 amended: allowed tools and disallowed tools are always split on commas
\* alone (elements stripped, empty ones dropped), a newline being part of an
\* element or of the white space around it; they parse as the label triggers
\* do whenever the source string holds no newline.
C9_ToolsCommaOnly ==
  Parsed =>
    /\ context.inputs.allowedTools = Elements(Source(env.ALLOWED_TOOLS), ",")
    /\ context.inputs.disallowedTools =
         Elements(Source(env.DISALLOWED_TOOLS), ",")
    /\ (SameSource /\ ~Includes(Source(env.LABEL_TRIGGER), "\n")) =>
         /\ context.inputs.allowedTools = context.inputs.labelTriggers
         /\ context.inputs.disallowedTools = context.inputs.labelTriggers

\* C9 witness: "Tool1\nTool2" is one allowed tool and two label triggers.
C9_Witness ==
  /\ Parsed /\ SameSource
  /\ env.ALLOWED_TOOLS = Str(TxTool1 \o <<"\n">> \o TxTool2)
  /\ context.inputs.allowedTools = <<TxTool1 \o <<"\n">> \o TxTool2>>
  /\ context.inputs.disallowedTools = <<TxTool1 \o <<"\n">> \o TxTool2>>
  /\ context.inputs.labelTriggers = <<TxTool1, TxTool2>>

\* C10: for an event of a supported kind the entity number of the context
\* is an integer >= 0: the issue or pull-request number, and for a dispatch
\* event 0 when no pr_number is carried.
C10_EntityNumber ==
  Parsed =>
    /\ context.entityNumber.t = "number"
    /\ context.entityNumber.v >= 0
    /\ (context.eventName \in {"issues", "issue_comment"} =>
          context.entityNumber = context.payload.issue.number)
    /\ (context.eventName = "repository_dispatch"
          /\ ~Truthy(Opt(context.payload.client_payload, "pr_number")) =>
          context.entityNumber = Num(0))
    /\ (context.eventName = "workflow_dispatch"
          /\ ~Truthy(Opt(context.payload.inputs, "pr_number")) =>
          context.entityNumber = Num(0))

\* The seven supported event kinds, as the claim lists them.
SevenKinds ==
  {"issues", "issue_comment", "pull_request", "pull_request_review",
   "pull_request_review_comment", "workflow_dispatch", "repository_dispatch"}

\* C11: for an event name outside the seven supported kinds
\* parseGitHubContext throws an error whose message carries the event name,
\* and no context is returned (no decision is ever taken); for an event name
\* of the seven it does not throw.
C11_UnsupportedEventThrows ==
  pc # "start" =>
    IF event.eventName \in SevenKinds
    THEN pc # "threw" /\ context.eventName = event.eventName
    ELSE /\ pc = "threw"
         /\ context = [message |-> "Unsupported event type: ",
                       eventName |-> event.eventName]
         /\ outcome = Undef /\ output = Undef

\* C11 witness: a push event has been rejected.
C11_Witness ==
  /\ pc = "threw"
  /\ event.eventName = "push"
  /\ context.message = "Unsupported event type: "
  /\ context.eventName = "push"

\* The text field is absent: undefined or null.
Absent(v) == v.t \in {"undefined", "null"}

\* C13: an absent text field is read as the empty string and contributes no
\* match, whatever the (non-empty) trigger phrase is: a comment or a review
\* with an absent body does not activate, and an issue or pull request with
\* an absent body or title activates only on the other field.
C13_AbsentTextNoMatch ==
  (Done /\ NoDirectPrompt /\ context.inputs.triggerPhrase # <<>>) =>
    /\ (/\ context.eventName \in {"issue_comment",
                                  "pull_request_review_comment"}
        /\ Absent(context.payload.comment.body)) => ~Activated
    /\ (/\ context.eventName = "pull_request_review"
        /\ Absent(context.payload.review.body)) => ~Activated
    /\ (/\ context.eventName = "pull_request"
        /\ Absent(context.payload.pull_request.body)) =>
         (Activated <=>
            PhraseIn(context, TextOf(context.payload.pull_request.title)))
    /\ (/\ context.eventName = "issues"
        /\ context.eventAction = Str("opened")
        /\ Absent(context.payload.issue.body)) =>
         (Activated <=>
            PhraseIn(context, TextOf(context.payload.issue.title)))

\* C14: with no direct prompt, an issues event whose action is none of
\* assigned, labeled, opened and a pull_request_review event whose action is
\* neither submitted nor edited never activate, whatever the texts, the
\* assignee and the label are.
C14_NoRuleNoActivation ==
  (Done /\ NoDirectPrompt) =>
    /\ (/\ context.eventName = "issues"
        /\ context.eventAction \notin
             {Str("assigned"), Str("labeled"), Str("opened")}) => ~Activated
    /\ (/\ context.eventName = "pull_request_review"
        /\ context.eventAction \notin {Str("submitted"), Str("edited")}) =>
         ~Activated

\* C14 witness: an edited issue whose body holds the phrase, whose assignee
\* is the trigger user and whose label is a trigger label; not activated.
C14_Witness ==
  /\ Done /\ NoDirectPrompt
  /\ context.eventName = "issues"
  /\ context.eventAction = Str("edited")
  /\ context.payload.issue.body = Str(TxHit)
  /\ context.inputs.assigneeTrigger = <<"@">> \o TxBot
  /\ context.payload.issue.assignee # Null
  /\ context.payload.issue.assignee.login = Str(TxBot)
  /\ context.inputs.labelTriggers = <<TxFix, TxBot>>
  /\ context.payload.label # Undef
  /\ context.payload.label.name = Str(TxFix)
  /\ ~Activated

\* C12 as stated: a second call on the same context returns the activation
\* value of the first, whatever the action inputs and the environment are at
\* the time of each call.
C12_Original == [][pc' = "again" => outcome' = outcome]_vars

\* C12 amended: a second call on the same context returns the activation
\* value of the first when the action inputs and the environment are those
\* of the first call, and, whatever they are, for every event kind but
\* workflow_dispatch and for every context with a direct prompt.
C12_PureButWorkflowDispatch ==
  [][(/\ pc' = "again"
      /\ \/ pc = "done"
         \/ context.eventName # "workflow_dispatch"
         \/ context.inputs.directPrompt # <<>>)
       => outcome' = outcome]_vars

\* C12 witness: a pull_request context decided a second time after PR_NUMBER
\* was set in the environment.
C12_Witness ==
  /\ pc = "again"
  /\ context.eventName = "pull_request"
  /\ NoDirectPrompt
  /\ env.PR_NUMBER = Str(<<"8">>)
  /\ ~Activated

=============================================================================
